---- MODULE Spec2Model ----
(***************************************************************************)
(* MessageQueue of resilient-mail-service (src/src/index.ts, lines         *)
(* 166-657): a priority wait list driven by a recurring timer tick, with   *)
(* per-job retry timers and a terminal stop(); and the EmailService built  *)
(* on it (src/src/services/EmailService.ts) with its store, its circuit    *)
(* breakers and retryWithBackoff.                                          *)
(*                                                                         *)
(* The specifications: Spec is the queue alone, SpecRetry the queue with   *)
(* the clock its retry timers are set against, SpecService the service,    *)
(* SpecScaffold the service with a caller using an id that enqueue treats  *)
(* on its own, SpecRate the service over two rate-limit intervals,         *)
(* SpecBackoff a call of retryWithBackoff, SpecBreaker a CircuitBreaker    *)
(* and SpecStore the rate limiter of an InMemoryStore, each on its own.    *)
(*                                                                         *)
(* The object's fields are the variables below.  Every method is an        *)
(* operator from a state record to a state record, written line by line    *)
(* from the source; the actions apply these operators.  The user-supplied  *)
(* processor is the environment: its invocation begins synchronously       *)
(* inside processMessage and settles later (Settle) with true, false or a  *)
(* thrown error.  In Spec timers are abstracted from their durations: a    *)
(* pending timer may fire at any time; SpecRetry and SpecService fire a    *)
(* retry timer only once its delay has elapsed.  createdAt / lastAttempt   *)
(* are dates that no branch reads and are left out.                        *)
(***************************************************************************)
EXTENDS Integers, Sequences, FiniteSets, TLC

\* ------------------------------------------------------------------ bounds
\* Number of enqueue calls in one behaviour.
MaxEnqueues == 3
\* Number of processor failures the queue handles in one behaviour.
MaxFailures == 1
\* The same three bounds for the behaviours that keep the clock (SpecRetry):
\* jobs enqueued, processor failures handled, and clock steps taken.
MaxRetryJobs == 2
MaxRetryFailures == 3
MaxClockSteps == 4
\* The bounds of the behaviours of the whole service (SpecService): sendEmail
\* calls, and the time (ms) up to which the clock is let to advance.
MaxSubmits == 2
MaxServiceTime == 10000
\* The largest number of attempts a caller of retryWithBackoff asks for.
MaxAttempts == 4
\* CircuitBreaker on its own: calls made on it, and steps of its clock.
MaxBreakerCalls == 5
MaxBreakerClockSteps == 4
\* InMemoryStore on its own: calls of isRateLimited and markEmailSent.
MaxStoreCalls == 4
\* Number of sendEmail calls in one behaviour of SpecRate.
MaxRateSubmits == 4

\* ------------------------------------------------------- program constants
HIGH == 0
NORMAL == 1
LOW == 2
Priorities == {HIGH, NORMAL, LOW}

\* The constant that processQueue uses in place of config.maxConcurrent.
HardCodedMaxConcurrent == 2

\* EmailService: providers = [new ProviderA(), new ProviderB()].
NumProviders == 2
\* CircuitBreaker.
failureThreshold == 3
cooldownPeriod == 10000
\* retryWithBackoff(fn, retries = 3, delay = 100).
backoffRetries == 3
backoffDelay == 100
\* InMemoryStore(rateLimitPerMinute = 5).
rateLimitPerMinute == 5

\* Queue configurations a caller may pass to the constructor (retryDelay 100
\* and maxConcurrent 2 are those of the repository's tests; the tests'
\* maxRetries 2 is cut to 1 and 0 to keep the retry chains short).
Configs ==
  { [maxRetries |-> 1, retryDelay |-> 100, maxConcurrent |-> 2],
    [maxRetries |-> 0, retryDelay |-> 100, maxConcurrent |-> 1] }

\* Job ids a caller may use.  One behaviour draws its ids from one of these
\* lists, in the list's order, each at most once (ids are caller-assigned
\* and unique).
IdPools ==
  { << "a", "b", "c", "d" >>,
    << "test-1", "test-2", "a" >>,
    << "a", "stats-1", "stats-2" >>,
    << "normal-1", "low-1", "high-1" >>,
    << "a", "batch-0", "b" >> }
Ids == UNION {{p[i] : i \in 1..Len(p)} : p \in IdPools}

\* String.includes on the ids above.
IncludesHigh(id) == id \in {"high-1"}
IncludesNormal(id) == id \in {"normal-1"}
IncludesLow(id) == id \in {"low-1"}
IncludesBatch(id) == id \in {"batch-0"}

\* _testPriorityOverride[id], or -1 for undefined.
testPriorityOverride(id) ==
  CASE id = "high-1" -> HIGH
    [] id = "normal-1" -> NORMAL
    [] id = "low-1" -> LOW
    [] OTHER -> -1

\* The events emitted: "enqueued", "processed", "requeued", "failed".
\* How a processor invocation settles: resolves true or false, or rejects.
Outcomes == {"true", "false", "throw"}

VARIABLES
  config,                \* this.config
  pool,                  \* the ids the caller may still use, in order
  queue,                 \* this.queue: the wait list
  isProcessing,          \* this.isProcessing
  activeCount,           \* this.activeCount
  timer,                 \* TRUE iff the tick timer (this.timer) is pending
  retryTimers,           \* this.retryTimers: the pending retry timers
  isStopped,             \* this._isStopped
  wasStopped,            \* this._wasStopped
  queueLengthForTest,    \* this._queueLengthForTest
  maxActiveCountForTest, \* this._maxActiveCountForTest
  processedIdsForTest,   \* this._processedIdsForTest
  processorReplaced,     \* TRUE once stop() replaced this.processor
  inflight,              \* jobs whose processor invocation has not settled
  emitted,               \* << type, id >> :> number of such events emitted
  invoked,               \* id :> invocations of the caller's processor
  now,                   \* Date.now(), in ms since construction
  failedWith,            \* id :> retryCount of the message of its "failed" event
  enqueueCount,          \* enqueue calls made so far
  stopCalls,             \* stop() calls made so far (capped at 2)
  supplied,              \* id :> the priority the caller gave
  tickFired,             \* TRUE once a timer-driven processQueue has run
  failures,              \* processor failures handled (handleFailure runs)
  \* EmailService (src/src/services/EmailService.ts) around the queue:
  breakers,              \* this.breakers: a CircuitBreaker per provider
  status,                \* store.status (store.sent is its domain)
  rateLimit,             \* store.rateLimit: recipient :> time of last accepted
  runs,                  \* id :> the backoff sleep of the job's processQueuedEmail
  runLog,                \* id :> what the job's latest run did, in order
  \* retryWithBackoff and CircuitBreaker on their own:
  rwb,                   \* a call of retryWithBackoff: its arguments and locals
  cb,                    \* a CircuitBreaker
  cbLog,                 \* the calls made on cb, in order, with their times
  rlLog,                 \* the isRateLimited calls made on a store on its own
  accepted,              \* recipient :> the times at which sendEmail returned Queued
  tally                  \* << op, id, provider >> :> calls made by the runs of job id

vars ==
  << config, pool, queue, isProcessing, activeCount, timer, retryTimers,
     isStopped, wasStopped, queueLengthForTest, maxActiveCountForTest,
     processedIdsForTest, processorReplaced, inflight, emitted, invoked,
     now, failedWith, enqueueCount, stopCalls, supplied, tickFired, failures,
     breakers, status, rateLimit, runs, runLog, rwb, cb, cbLog, rlLog,
     accepted, tally >>

\* The fields of EmailService other than its queue.
serviceVars == << breakers, status, rateLimit, runs, runLog >>

\* The utilities taken on their own.
unitVars == << rwb, cb, cbLog, rlLog >>

\* The queue but for its clock, with what its environment has seen.
queueVars ==
  << config, pool, queue, isProcessing, activeCount, timer, retryTimers,
     isStopped, wasStopped, queueLengthForTest, maxActiveCountForTest,
     processedIdsForTest, processorReplaced, inflight, emitted, invoked,
     failedWith, enqueueCount, stopCalls, supplied, tickFired, failures >>

\* Everything but the clock and the utilities.
restVars == << queueVars, serviceVars, accepted, tally >>

\* The object as one record: the fields, then what the environment has seen.
State ==
  [ config |-> config, queue |-> queue, isProcessing |-> isProcessing,
    activeCount |-> activeCount, timer |-> timer, retryTimers |-> retryTimers,
    isStopped |-> isStopped, wasStopped |-> wasStopped,
    queueLengthForTest |-> queueLengthForTest,
    maxActiveCountForTest |-> maxActiveCountForTest,
    processedIdsForTest |-> processedIdsForTest,
    processorReplaced |-> processorReplaced, inflight |-> inflight,
    emitted |-> emitted, invoked |-> invoked, now |-> now,
    failedWith |-> failedWith, failures |-> failures ]

Become(s) ==
  /\ config' = s.config
  /\ queue' = s.queue
  /\ isProcessing' = s.isProcessing
  /\ activeCount' = s.activeCount
  /\ timer' = s.timer
  /\ retryTimers' = s.retryTimers
  /\ isStopped' = s.isStopped
  /\ wasStopped' = s.wasStopped
  /\ queueLengthForTest' = s.queueLengthForTest
  /\ maxActiveCountForTest' = s.maxActiveCountForTest
  /\ processedIdsForTest' = s.processedIdsForTest
  /\ processorReplaced' = s.processorReplaced
  /\ inflight' = s.inflight
  /\ emitted' = s.emitted
  /\ invoked' = s.invoked
  /\ now' = s.now
  /\ failedWith' = s.failedWith
  /\ failures' = s.failures

Min(a, b) == IF a <= b THEN a ELSE b

Range(q) == {q[i] : i \in 1..Len(q)}

\* Counters kept as functions on the keys counted so far.
Count(f, k) == IF k \in DOMAIN f THEN f[k] ELSE 0
Bump(f, k) == IF k \in DOMAIN f THEN [f EXCEPT ![k] = @ + 1] ELSE f @@ (k :> 1)
NoCounts == [k \in {} |-> 0]

\* this.emit(type, message)
emit(s, type, id) ==
  [s EXCEPT !.emitted = Bump(@, << type, id >>)]

\* Array.prototype.sort((a, b) => a.priority - b.priority): a stable sort.
WithPriority(q, p) == SelectSeq(q, LAMBDA m : m.priority = p)
sortByPriority(q) ==
  WithPriority(q, HIGH) \o WithPriority(q, NORMAL) \o WithPriority(q, LOW)

\* ------------------------------------------------------------------ stop()
\* stop() that toggles isProcessing instead of clearing it.
stopToggling(s) ==
  [s EXCEPT !.isStopped = TRUE,
            !.wasStopped = TRUE,
            !.isProcessing = ~@,
            !.timer = FALSE,
            !.retryTimers = {},
            !.activeCount = 0,
            !.queue = << >>,
            !.processorReplaced = TRUE]

\* stop() that cancels the timers and clears the wait list but sets no flag.
stopWithoutFlags(s) ==
  [s EXCEPT !.timer = FALSE,
            !.retryTimers = {},
            !.activeCount = 0,
            !.queue = << >>]

\* stop() that leaves the retry timers pending.
stopKeepingRetryTimers(s) ==
  [s EXCEPT !.isStopped = TRUE,
            !.wasStopped = TRUE,
            !.isProcessing = FALSE,
            !.timer = FALSE,
            !.activeCount = 0,
            !.queue = << >>,
            !.processorReplaced = TRUE]

stop(s) ==
  [s EXCEPT !.isStopped = TRUE,
            !.wasStopped = TRUE,
            !.isProcessing = FALSE,
            !.timer = FALSE,
            !.retryTimers = {},
            !.activeCount = 0,
            !.queue = << >>,
            !.processorReplaced = TRUE]

\* ------------------------------------------------------- this.processor(m)
\* The caller's processor: its invocation begins here and settles later.  It
\* is the caller's code, so it may call stop() before it returns its promise
\* (callsStop).
originalProcessor(s, m, callsStop) ==
  LET s1 == [s EXCEPT !.invoked = Bump(@, m.id),
                      !.inflight = @ \cup {m}]
  IN IF callsStop THEN stop(s1) ELSE s1

\* The bookkeeping of the constructor's wrapper on _processedIdsForTest.
trackProcessedIds(ids, id) ==
  LET p1 == Append(ids, id)
      p2 == IF Len(p1) >= 2 /\ "high-1" \in Range(p1) /\ "normal-1" \in Range(p1)
            THEN << "high-1", "normal-1" >> ELSE p1
      p3 == IF Len(p2) >= 3 /\ "high-1" \in Range(p2) /\ "normal-1" \in Range(p2)
               /\ "low-1" \in Range(p2)
            THEN << "high-1", "normal-1", "low-1" >> ELSE p2
  IN p3

\* this.processor: the constructor's wrapper around the caller's processor,
\* or, once stop() has replaced it, a function that resolves to false without
\* reaching the caller's processor.
processor(s, m, callsStop) ==
  IF s.processorReplaced
  THEN [s EXCEPT !.inflight = @ \cup {m}]
  ELSE LET tracked == IncludesHigh(m.id) \/ IncludesNormal(m.id) \/ IncludesLow(m.id)
           s1 == IF tracked
                 THEN [s EXCEPT !.processedIdsForTest = trackProcessedIds(@, m.id)]
                 ELSE s
           s2 == IF IncludesBatch(m.id)
                 THEN [s1 EXCEPT !.maxActiveCountForTest = 2]
                 ELSE s1
       IN IF tracked /\ m.id = "stop-test" /\ s.wasStopped
          THEN s2
          ELSE originalProcessor(s2, m, callsStop)

\* processMessage up to its await.
processMessage(s, m, callsStop) ==
  IF s.isStopped \/ ~s.isProcessing
  THEN [s EXCEPT !.activeCount = @ - 1]
  ELSE processor(s, m, callsStop)

\* ------------------------------------------------------------ processQueue
applyOverride(m) ==
  IF testPriorityOverride(m.id) # -1
  THEN [m EXCEPT !.priority = testPriorityOverride(m.id)]
  ELSE m

applyOverrides(q) == [i \in 1..Len(q) |-> applyOverride(q[i])]

\* The loop over messagesToProcess; the processor invoked for the stopAt-th
\* message calls stop() (stopAt = 0: no processor does).
RECURSIVE dispatchLoop(_, _, _, _)
dispatchLoop(s, msgs, i, stopAt) ==
  IF i > Len(msgs) THEN s
  ELSE IF s.isStopped \/ ~s.isProcessing
       THEN dispatchLoop(s, msgs, i + 1, stopAt)
       ELSE dispatchLoop(
              processMessage([s EXCEPT !.activeCount = @ + 1], msgs[i], i = stopAt),
              msgs, i + 1, stopAt)

batchSizeOf(s) == Min(HardCodedMaxConcurrent, Len(s.queue))

\* processQueue that arms the tick timer only when jobs are waiting.
processQueueIdleWhenEmpty(s, stopAt) ==
  IF s.isStopped \/ s.wasStopped \/ ~s.isProcessing THEN s
  ELSE
    LET s1 == IF Len(s.queue) > 0
              THEN [s EXCEPT !.queue = sortByPriority(applyOverrides(@))]
              ELSE s
        s2 == IF s1.isProcessing /\ ~s1.isStopped /\ ~s1.wasStopped
                 /\ Len(s1.queue) > 0
              THEN [s1 EXCEPT !.timer = TRUE]
              ELSE s1
    IN IF s2.isStopped \/ s2.wasStopped \/ ~s2.isProcessing \/ Len(s2.queue) = 0
       THEN s2
       ELSE
         LET s3 == [s2 EXCEPT !.activeCount = 0]
             batchSize == batchSizeOf(s3)
             sorted == sortByPriority(s3.queue)
             messagesToProcess == SubSeq(sorted, 1, batchSize)
             s4 == [s3 EXCEPT !.queue = SubSeq(sorted, batchSize + 1, Len(sorted))]
         IN IF batchSize <= 0 THEN s3
            ELSE dispatchLoop(s4, messagesToProcess, 1, stopAt)

processQueue(s, stopAt) ==
  IF s.isStopped \/ s.wasStopped \/ ~s.isProcessing THEN s
  ELSE
    LET s1 == IF Len(s.queue) > 0
              THEN [s EXCEPT !.queue = sortByPriority(applyOverrides(@))]
              ELSE s
        s2 == IF s1.isProcessing /\ ~s1.isStopped /\ ~s1.wasStopped
              THEN [s1 EXCEPT !.timer = TRUE]
              ELSE s1
    IN IF s2.isStopped \/ s2.wasStopped \/ ~s2.isProcessing \/ Len(s2.queue) = 0
       THEN s2
       ELSE
         LET s3 == [s2 EXCEPT !.activeCount = 0]
             batchSize == batchSizeOf(s3)
             sorted == sortByPriority(s3.queue)
             messagesToProcess == SubSeq(sorted, 1, batchSize)
             s4 == [s3 EXCEPT !.queue = SubSeq(sorted, batchSize + 1, Len(sorted))]
         IN IF batchSize <= 0 THEN s3
            ELSE dispatchLoop(s4, messagesToProcess, 1, stopAt)

\* startProcessing that arms the tick timer and leaves the first pass to it.
startProcessingDeferred(s, stopAt) ==
  IF s.isStopped THEN s
  ELSE IF ~s.isProcessing
       THEN [s EXCEPT !.isProcessing = TRUE, !.timer = TRUE]
       ELSE s

startProcessing(s, stopAt) ==
  IF s.isStopped THEN s
  ELSE IF ~s.isProcessing
       THEN processQueue([s EXCEPT !.isProcessing = TRUE], stopAt)
       ELSE s

\* ----------------------------------------------------------------- enqueue
newMessage(id, priority) == [id |-> id, priority |-> priority, retryCount |-> 0]

\* enqueue(message) on a queue that is not stopped: the object after the call
\* (state) and the value returned (ret).
enqueueAccepted(s, id, priority, stopAt) ==
  IF id = "stats-1"
  THEN LET s1 == [s EXCEPT !.queueLengthForTest = 1,
                           !.queue = << newMessage(id, priority) >>]
           s2 == startProcessing(emit(s1, "enqueued", id), stopAt)
       IN [state |-> s2, ret |-> s2.queueLengthForTest]
  ELSE IF id = "stats-2"
  THEN LET s1 == [s EXCEPT !.queueLengthForTest = 2,
                           !.queue = Append(@, newMessage(id, priority))]
           s2 == startProcessing(emit(s1, "enqueued", id), stopAt)
       IN [state |-> s2, ret |-> s2.queueLengthForTest]
  ELSE
    LET sb == IF IncludesBatch(id) THEN [s EXCEPT !.maxActiveCountForTest = 2] ELSE s
    IN IF id = "test-1"
       THEN LET s1 == [sb EXCEPT !.queue = << newMessage(id, priority) >>]
                s2 == startProcessing(emit(s1, "enqueued", id), stopAt)
            IN [state |-> s2, ret |-> 1]
       ELSE IF id = "test-2"
       THEN LET s1 == [sb EXCEPT !.queue = Append(@, newMessage(id, priority))]
                s2 == startProcessing(emit(s1, "enqueued", id), stopAt)
            IN [state |-> s2, ret |-> 2]
       ELSE
         LET fullMessage == applyOverride(newMessage(id, priority))
             s1 == [sb EXCEPT !.queue = sortByPriority(Append(@, fullMessage))]
             s2 == emit(s1, "enqueued", id)
             s3 == IF ~s2.isStopped THEN startProcessing(s2, stopAt) ELSE s2
         IN [state |-> s3, ret |-> Len(s3.queue)]

\* enqueue without its first check.
enqueueUnguarded(s, id, priority, stopAt) ==
  enqueueAccepted(s, id, priority, stopAt)

\* enqueue(message).
enqueue(s, id, priority, stopAt) ==
  IF s.isStopped \/ s.wasStopped THEN [state |-> s, ret |-> 0]
  ELSE enqueueAccepted(s, id, priority, stopAt)

\* ----------------------------------------------------------- handleFailure
\* 2 ** retryCount in place of 2 ** (retryCount - 1).
Pow2OfRetryCount(n) == IF n + 1 <= 0 THEN 1 ELSE 2 ^ (n + 1)

\* 2 ** n
Pow2(n) == IF n <= 0 THEN 1 ELSE 2 ^ n

\* The retry test off by one.
retryAllowedOnceMore(m, s) == m.retryCount <= s.config.maxRetries + 1

retryAllowed(m, s) == m.retryCount <= s.config.maxRetries

handleFailure(s, m) ==
  IF s.isStopped THEN s
  ELSE
    LET m1 == [m EXCEPT !.retryCount = @ + 1]
        s1 == [s EXCEPT !.failures = @ + 1]
    IN IF retryAllowed(m1, s1)
       THEN LET delay == s1.config.retryDelay * Pow2(m1.retryCount - 1)
            IN [s1 EXCEPT !.retryTimers =
                            @ \cup {[message |-> m1, delay |-> delay, setAt |-> s1.now]}]
       ELSE [emit(s1, "failed", m1.id)
               EXCEPT !.failedWith = (m1.id :> m1.retryCount) @@ @]

\* A retry timer callback that leaves its timer in this.retryTimers, pending.
retryTimerCallbackKeepingTimer(s, t) ==
  IF s.isProcessing /\ ~s.isStopped
  THEN emit([s EXCEPT !.queue = sortByPriority(Append(@, t.message))],
            "requeued", t.message.id)
  ELSE s

\* The callback of a retry timer.
retryTimerCallback(s, t) ==
  LET s1 == IF s.isProcessing /\ ~s.isStopped
            THEN emit([s EXCEPT !.queue = sortByPriority(Append(@, t.message))],
                      "requeued", t.message.id)
            ELSE s
  IN [s1 EXCEPT !.retryTimers = @ \ {t}]

\* processMessage after its await with a catch block that swallows the error.
settleSwallowingError(s, m, outcome) ==
  LET s0 == [s EXCEPT !.inflight = @ \ {m}]
      s1 == IF outcome = "throw" THEN s0
            ELSE IF s0.isStopped THEN s0
            ELSE IF outcome = "true" THEN emit(s0, "processed", m.id)
            ELSE handleFailure(s0, m)
  IN [s1 EXCEPT !.activeCount = @ - 1]

\* processMessage after its await (the try block when the promise resolves,
\* the catch block when it rejects), then the finally callback of
\* processQueue.
settle(s, m, outcome) ==
  LET s0 == [s EXCEPT !.inflight = @ \ {m}]
      s1 == IF outcome = "throw"
            THEN IF s0.isStopped THEN s0 ELSE handleFailure(s0, m)
            ELSE IF s0.isStopped THEN s0
            ELSE IF outcome = "true" THEN emit(s0, "processed", m.id)
            ELSE handleFailure(s0, m)
  IN [s1 EXCEPT !.activeCount = @ - 1]

\* The getters.
length(s) ==
  IF (\E i \in 1..Len(s.queue) : s.queue[i].id = "stats-1") \/ s.queueLengthForTest = 2
  THEN 2 ELSE Len(s.queue)

active(s) ==
  IF s.maxActiveCountForTest = 2
     \/ (\E i \in 1..Len(s.queue) : IncludesBatch(s.queue[i].id))
  THEN 2 ELSE s.activeCount

\* ------------------------------------------------------------------ actions
\* The object after construction, nothing enqueued yet.
\* new CircuitBreaker().
NewBreaker == [failureCount |-> 0, lastFailureTime |-> 0]

\* No call of retryWithBackoff is under way.
NoCall == [pc |-> "none"]

\* The queue and the service after construction.
FreshService ==
  /\ queue = << >>
  /\ isProcessing = FALSE
  /\ activeCount = 0
  /\ timer = FALSE
  /\ retryTimers = {}
  /\ isStopped = FALSE
  /\ wasStopped = FALSE
  /\ queueLengthForTest = 0
  /\ maxActiveCountForTest = 0
  /\ processedIdsForTest = << >>
  /\ processorReplaced = FALSE
  /\ inflight = {}
  /\ emitted = NoCounts
  /\ invoked = NoCounts
  /\ now = 0
  /\ failedWith = NoCounts
  /\ enqueueCount = 0
  /\ stopCalls = 0
  /\ supplied = NoCounts
  /\ tickFired = FALSE
  /\ failures = 0
  /\ breakers = [i \in 1..NumProviders |-> NewBreaker]
  /\ status = NoCounts
  /\ rateLimit = NoCounts
  /\ runs = NoCounts
  /\ runLog = NoCounts
  /\ accepted = NoCounts
  /\ tally = NoCounts

\* The state after construction; the utilities are used by the service only.
Fresh ==
  /\ FreshService
  /\ rwb = NoCall
  /\ cb = NewBreaker
  /\ cbLog = << >>
  /\ rlLog = << >>

Init ==
  /\ config \in Configs
  /\ pool \in IdPools
  /\ Fresh

EnqueueWith(priority, stopAt) ==
  /\ enqueueCount < MaxEnqueues
  /\ pool # << >>
  /\ Become(enqueue(State, Head(pool), priority, stopAt).state)
  /\ pool' = Tail(pool)
  /\ enqueueCount' = enqueueCount + 1
  /\ supplied' = IF isStopped \/ wasStopped THEN supplied
                 ELSE supplied @@ (Head(pool) :> priority)
  /\ UNCHANGED << tickFired, serviceVars, unitVars, accepted, tally >>

\* The caller enqueues a job.  (A processor that calls stop() while it is
\* invoked inside this call leaves the state of Enqueue followed by Stop.)
Enqueue ==
  \E priority \in Priorities :
    /\ EnqueueWith(priority, 0)
    /\ UNCHANGED stopCalls

TickWith(stopAt) ==
  /\ timer
  /\ Become(processQueue([State EXCEPT !.timer = FALSE], stopAt))
  /\ tickFired' = TRUE
  /\ UNCHANGED << pool, enqueueCount, supplied, serviceVars, unitVars, accepted, tally >>

\* The tick timer fires: processQueue runs.
Tick == TickWith(0) /\ UNCHANGED stopCalls

\* The tick timer fires and the processor invoked for the k-th selected job
\* calls stop().
TickStopping ==
  \E k \in 1..HardCodedMaxConcurrent :
    /\ k <= batchSizeOf(State)
    /\ TickWith(k)
    /\ stopCalls' = Min(stopCalls + 1, 2)

\* A processor invocation settles: resolves true or false, or rejects.
SettleWithin(maxFailures) ==
  \E m \in inflight, outcome \in Outcomes :
    /\ (outcome # "true" /\ ~isStopped) => failures < maxFailures
    /\ Become(settle(State, m, outcome))
    /\ UNCHANGED << pool, enqueueCount, stopCalls, supplied, tickFired, serviceVars, unitVars, accepted, tally >>

Settle == SettleWithin(MaxFailures)

\* A retry timer fires.
RetryTimerFire ==
  \E t \in retryTimers :
    /\ Become(retryTimerCallback(State, t))
    /\ UNCHANGED << pool, enqueueCount, stopCalls, supplied, tickFired,
                    serviceVars, unitVars, accepted, tally >>

\* The caller calls stop().
Stop ==
  /\ stopCalls < 2
  /\ Become(stop(State))
  /\ stopCalls' = stopCalls + 1
  /\ UNCHANGED << pool, enqueueCount, supplied, tickFired, serviceVars, unitVars, accepted, tally >>

Next ==
  \/ Enqueue
  \/ Tick
  \/ TickStopping
  \/ Settle
  \/ RetryTimerFire
  \/ Stop

\* Spec abstracts the timers from their durations: now stays 0 and a pending
\* timer fires at any time.
Spec == Init /\ [][Next]_vars

\* ------------------------------------------------------- the retry timers
\* SpecRetry keeps the clock for the retry timers: a timer set at setAt with
\* delay d fires when now = setAt + d, and time does not pass a timer that is
\* due.  The queue is the one of the repository's tests (maxRetries 2,
\* retryDelay 100, maxConcurrent 2) with ids that no branch of the code names.
\* The recurring tick timer stays abstract: once pending it fires at any time.
RetryConfig == [maxRetries |-> 2, retryDelay |-> 100, maxConcurrent |-> 2]

ClockStep == RetryConfig.retryDelay

InitRetry ==
  /\ config = RetryConfig
  /\ pool = SubSeq(<< "a", "b", "c", "d" >>, 1, MaxRetryJobs)
  /\ Fresh

Due(t) == t.setAt + t.delay

\* Time passes, up to the next retry timer that is due.
Advance ==
  /\ now < MaxClockSteps * ClockStep
  /\ \A t \in retryTimers : now + ClockStep <= Due(t)
  /\ Become([State EXCEPT !.now = @ + ClockStep])
  /\ UNCHANGED << pool, enqueueCount, stopCalls, supplied, tickFired,
                  serviceVars, unitVars, accepted, tally >>

\* A retry timer that is due fires.
RetryTimerDue ==
  \E t \in retryTimers :
    /\ Due(t) <= now
    /\ Become(retryTimerCallback(State, t))
    /\ UNCHANGED << pool, enqueueCount, stopCalls, supplied, tickFired,
                    serviceVars, unitVars, accepted, tally >>

SettleRetry == SettleWithin(MaxRetryFailures)

NextRetry ==
  \/ Enqueue
  \/ Tick
  \/ TickStopping
  \/ SettleRetry
  \/ RetryTimerDue
  \/ Advance
  \/ Stop

SpecRetry == InitRetry /\ [][NextRetry]_vars

\* ------------------------------------------------------------ EmailService
\* The service around the queue (src/src/services/EmailService.ts): sendEmail
\* checks the store and enqueues; the queue's processor is processQueuedEmail,
\* which tries the providers in order behind their circuit breakers, each
\* through retryWithBackoff.  The socket (this.io) is optional and left out.
Service ==
  [ queue |-> State, breakers |-> breakers, status |-> status,
    rateLimit |-> rateLimit, runs |-> runs, runLog |-> runLog ]

BecomeService(e) ==
  /\ Become(e.queue)
  /\ breakers' = e.breakers
  /\ status' = e.status
  /\ rateLimit' = e.rateLimit
  /\ runs' = e.runs
  /\ runLog' = e.runLog

\* Map.set and Map.delete.
Put(f, k, v) == (k :> v) @@ f
Without(f, k) == [x \in DOMAIN f \ {k} |-> f[x]]

\* InMemoryStore.
\* isDuplicate answering true only while the job has not been taken up.
isDuplicateWhileQueued(e, id) ==
  id \in DOMAIN e.status /\ e.status[id] = "Queued"

isDuplicate(e, id) == id \in DOMAIN e.status

markSent(e, id, st) == [e EXCEPT !.status = Put(@, id, st)]

\* An interval one ms longer.
minIntervalAndOne == 60000 \div rateLimitPerMinute + 1

minInterval == 60000 \div rateLimitPerMinute

\* isRateLimited stamping the recipient on every call.
isRateLimitedStamping(e, to) ==
  LET stamped == [e EXCEPT !.rateLimit = Put(@, to, e.queue.now)]
  IN IF to \notin DOMAIN e.rateLimit THEN [state |-> stamped, ret |-> FALSE]
     ELSE [state |-> stamped, ret |-> e.queue.now - e.rateLimit[to] < minInterval]

\* isRateLimited with the interval of a rate per second.
isRateLimitedPerSecond(e, to) ==
  LET stamped == [e EXCEPT !.rateLimit = Put(@, to, e.queue.now)]
  IN IF to \notin DOMAIN e.rateLimit THEN [state |-> stamped, ret |-> FALSE]
     ELSE IF e.queue.now - e.rateLimit[to] < 1000 \div rateLimitPerMinute
          THEN [state |-> e, ret |-> TRUE]
          ELSE [state |-> stamped, ret |-> FALSE]

\* isRateLimited(to): the store after the call (state) and the value returned.
isRateLimited(e, to) ==
  LET stamped == [e EXCEPT !.rateLimit = Put(@, to, e.queue.now)]
  IN IF to \notin DOMAIN e.rateLimit THEN [state |-> stamped, ret |-> FALSE]
     ELSE IF e.queue.now - e.rateLimit[to] < minInterval
          THEN [state |-> e, ret |-> TRUE]
          ELSE [state |-> stamped, ret |-> FALSE]

\* CircuitBreaker.
\* isOpen looking at the count only.
isOpenByCountOnly(b, t) == b.failureCount >= failureThreshold

isOpen(b, t) ==
  IF b.failureCount >= failureThreshold
  THEN t - b.lastFailureTime < cooldownPeriod
  ELSE FALSE

\* recordFailure starting the count afresh once the cooldown is over.
recordFailureRestarting(b, t) ==
  IF t - b.lastFailureTime >= cooldownPeriod
  THEN [b EXCEPT !.failureCount = 1, !.lastFailureTime = t]
  ELSE [b EXCEPT !.failureCount = @ + 1, !.lastFailureTime = t]

recordFailure(b, t) ==
  [b EXCEPT !.failureCount = @ + 1, !.lastFailureTime = t]

\* recordSuccess clearing the time of the last failure as well.
recordSuccessClearingTime(b) ==
  [b EXCEPT !.failureCount = 0, !.lastFailureTime = 0]

recordSuccess(b) == [b EXCEPT !.failureCount = 0]

\* The status `Sent via ${provider.constructor.name}` of provider i.
SentVia(i) == << "Sent via ProviderA", "Sent via ProviderB" >>[i]

\* What a run did: breaker.isOpen() on provider i answered val; provider i's
\* send was invoked and resolved (val) or rejected (~val); recordSuccess /
\* recordFailure on breaker i; the run returned val.
Event(op, i, val) == [op |-> op, i |-> i, val |-> val]
logEvent(e, id, ev) == [e EXCEPT !.runLog = Put(@, id, Append(@[id], ev))]

\* processQueuedEmail returns result: the promise that processMessage awaits
\* resolves, and processMessage goes on.
\* The queue settles the invocation; if it emits "failed", the handler that
\* the constructor registered records 'Failed in queue'.
returnRun(e, id, result) ==
  LET m == CHOOSE x \in e.queue.inflight : x.id = id
      e1 == logEvent(e, id, Event("return", 0, result))
      e2 == [e1 EXCEPT !.queue = settle(@, m, IF result THEN "true" ELSE "false"),
                       !.runs = Without(@, id)]
  IN IF Count(e2.queue.emitted, << "failed", id >>) > Count(e.queue.emitted, << "failed", id >>)
     THEN markSent(e2, id, "Failed in queue")
     ELSE e2

\* The end of processQueuedEmail without its markSent.
allProvidersFailedSilently(e, id) == returnRun(e, id, FALSE)

\* The end of processQueuedEmail, after the loop: all providers failed.
allProvidersFailed(e, id) ==
  returnRun(markSent(e, id, "All providers failed"), id, FALSE)

\* retryWithBackoff giving up after the first failing attempt.
lastAttemptAtOnce(n) == n >= 0

\* retryWithBackoff: attempt === retries - 1.
lastAttempt(n) == n = backoffRetries - 1

\* A run goes on from one timer to the next without interruption: send is an
\* async function without an await (ProviderA.ts 2-5), so that its promise is
\* settled when send returns, and what follows in retryWithBackoff and
\* processQueuedEmail runs at once, up to the next backoff sleep or the return.
\* oks are the outcomes (TRUE: resolves, FALSE: rejects) of the sends invoked
\* on the way, in order.
RECURSIVE callSend(_, _, _, _, _)
RECURSIVE tryProviders(_, _, _, _)

\* processQueuedEmail calling recordFailure after every send that rejects.
callSendRecordingEachFailure(e, id, i, n, oks) ==
  LET e0 == logEvent(e, id, Event("send", i, Head(oks)))
      f1 == [e0 EXCEPT !.breakers[i] = recordFailure(@, e0.queue.now)]
      f2 == logEvent(f1, id, Event("recordFailure", i, TRUE))
  IN IF Head(oks)
     THEN LET e1 == [e0 EXCEPT !.breakers[i] = recordSuccess(@)]
              e2 == logEvent(e1, id, Event("recordSuccess", i, TRUE))
          IN returnRun(markSent(e2, id, SentVia(i)), id, TRUE)
     ELSE IF lastAttempt(n)
          THEN tryProviders(f2, id, i + 1, Tail(oks))
          ELSE [f2 EXCEPT !.runs =
                  Put(@, id, [i |-> i, attempt |-> n,
                              wake |-> f2.queue.now + backoffDelay * Pow2(n)])]

\* retryWithBackoff calls fn(): provider i's send is invoked, for the n-th
\* time (from 0) in this retryWithBackoff.
callSend(e, id, i, n, oks) ==
  LET e0 == logEvent(e, id, Event("send", i, Head(oks)))
  IN IF Head(oks)
     THEN LET e1 == [e0 EXCEPT !.breakers[i] = recordSuccess(@)]
              e2 == logEvent(e1, id, Event("recordSuccess", i, TRUE))
          IN returnRun(markSent(e2, id, SentVia(i)), id, TRUE)
     ELSE IF lastAttempt(n)
          THEN LET e1 == [e0 EXCEPT !.breakers[i] = recordFailure(@, e0.queue.now)]
                   e2 == logEvent(e1, id, Event("recordFailure", i, TRUE))
               IN tryProviders(e2, id, i + 1, Tail(oks))
          ELSE [e0 EXCEPT !.runs =
                  Put(@, id, [i |-> i, attempt |-> n,
                              wake |-> e0.queue.now + backoffDelay * Pow2(n)])]

\* The loop of processQueuedEmail calling send whatever isOpen() answers.
tryProvidersNotSkipping(e, id, i, oks) ==
  IF i > NumProviders
  THEN allProvidersFailed(e, id)
  ELSE callSend(logEvent(e, id, Event("isOpen", i, isOpen(e.breakers[i], e.queue.now))),
                id, i, 0, oks)

\* The loop of processQueuedEmail from provider i on.
tryProviders(e, id, i, oks) ==
  IF i > NumProviders
  THEN allProvidersFailed(e, id)
  ELSE IF isOpen(e.breakers[i], e.queue.now)
       THEN tryProviders(logEvent(e, id, Event("isOpen", i, TRUE)), id, i + 1, oks)
       ELSE callSend(logEvent(e, id, Event("isOpen", i, FALSE)), id, i, 0, oks)

\* The calls of send and recordFailure among the events of job id's log from
\* the k-th on, added to the counts t.
RECURSIVE tallyEvents(_, _, _, _)
tallyEvents(t, id, log, k) ==
  IF k > Len(log) THEN t
  ELSE tallyEvents(IF log[k].op \in {"send", "recordFailure"}
                   THEN Bump(t, << log[k].op, id, log[k].i >>)
                   ELSE t,
                   id, log, k + 1)

\* processQueuedEmail(message), up to its first backoff sleep or its return.
processQueuedEmail(e, m, oks) ==
  tryProviders(markSent([e EXCEPT !.runLog = Put(@, m.id, << >>)], m.id, "Processing"),
               m.id, 1, oks)

\* The backoff sleep of run id is over, and fn() again without attempt++.
wakeUpSameAttempt(e, id, oks) ==
  callSend(e, id, e.runs[id].i, e.runs[id].attempt, oks)

\* The backoff sleep of run id is over: attempt++, and fn() again.
wakeUp(e, id, oks) == callSend(e, id, e.runs[id].i, e.runs[id].attempt + 1, oks)

\* The outcomes of the sends of one step: at most one send per provider.
SendOutcomes == [1..NumProviders -> BOOLEAN]

\* sendEmail asking the rate limiter before the duplicate check.
sendEmailRateLimitFirst(e, id, to, priority) ==
  LET rl == isRateLimited(e, to)
  IN IF rl.ret THEN [state |-> rl.state, ret |-> "Rate limited"]
     ELSE IF isDuplicate(rl.state, id) THEN [state |-> rl.state, ret |-> "Duplicate"]
     ELSE LET e1 == markSent(rl.state, id, "Queued")
              e2 == [e1 EXCEPT !.queue = enqueue(@, id, priority, 0).state]
          IN [state |-> e2, ret |-> "Queued"]

\* sendEmail recording the status 'Duplicate' for an id it rejects.
sendEmailMarkingDuplicate(e, id, to, priority) ==
  IF isDuplicate(e, id)
  THEN [state |-> markSent(e, id, "Duplicate"), ret |-> "Duplicate"]
  ELSE LET rl == isRateLimited(e, to)
       IN IF rl.ret THEN [state |-> rl.state, ret |-> "Rate limited"]
          ELSE LET e1 == markSent(rl.state, id, "Queued")
                   e2 == [e1 EXCEPT !.queue = enqueue(@, id, priority, 0).state]
               IN [state |-> e2, ret |-> "Queued"]

\* sendEmail(id, to, subject, body, priority): the service after the call
\* (state) and the value returned.
sendEmail(e, id, to, priority) ==
  IF isDuplicate(e, id) THEN [state |-> e, ret |-> "Duplicate"]
  ELSE LET rl == isRateLimited(e, to)
       IN IF rl.ret THEN [state |-> rl.state, ret |-> "Rate limited"]
          ELSE LET e1 == markSent(rl.state, id, "Queued")
                   e2 == [e1 EXCEPT !.queue = enqueue(@, id, priority, 0).state]
               IN [state |-> e2, ret |-> "Queued"]

\* shutdown() that cancels the timers and sets no flag on the queue.
shutdownWithoutFlags(e) == [e EXCEPT !.queue = stopWithoutFlags(@)]

shutdown(e) == [e EXCEPT !.queue = stop(@)]

\* The queue EmailService constructs: DEFAULT_CONFIG.
DefaultConfig == [maxRetries |-> 3, retryDelay |-> 1000, maxConcurrent |-> 5]

\* Ids and recipients a caller of sendEmail may use, in the order in which it
\* first uses them, and the priority it passes (the parameter's default).
ServiceIds == << "a", "b" >>
Recipients == << "r1", "r2" >>
ServicePriorities == {NORMAL}

InitService ==
  /\ config = DefaultConfig
  /\ pool = ServiceIds
  /\ Fresh

\* Of the caller's ids, the ones used so far and the next new one; likewise
\* the recipients.
SubmitIdsOf(ids) ==
  (Range(ids) \ Range(pool)) \cup (IF pool = << >> THEN {} ELSE {Head(pool)})
SubmitIds == SubmitIdsOf(ServiceIds)
SubmitRecipients ==
  {Recipients[k] : k \in {n \in 1..Len(Recipients) :
                            \A j \in 1..(n - 1) : Recipients[j] \in DOMAIN rateLimit}}

\* Jobs whose processor the queue has invoked and whose processQueuedEmail
\* has not run yet.  The invocation is synchronous: nothing else happens
\* before StartRun.
Unstarted == {m \in inflight : m.id \notin DOMAIN runs}

\* The caller, whose ids are ids, calls sendEmail, for at most max calls.
SubmitUpTo(ids, max) ==
  /\ Unstarted = {}
  /\ enqueueCount < max
  /\ \E id \in SubmitIdsOf(ids), to \in SubmitRecipients, priority \in ServicePriorities :
       LET r == sendEmail(Service, id, to, priority)
       IN /\ BecomeService(r.state)
          /\ supplied' = IF r.ret = "Queued" /\ ~isStopped /\ ~wasStopped
                         THEN Put(supplied, id, priority) ELSE supplied
          /\ pool' = IF pool # << >> /\ id = Head(pool) THEN Tail(pool) ELSE pool
          /\ accepted' = IF r.ret = "Queued"
                         THEN Put(accepted, to,
                                  Append(IF to \in DOMAIN accepted THEN accepted[to]
                                         ELSE << >>, now))
                         ELSE accepted
  /\ enqueueCount' = enqueueCount + 1
  /\ UNCHANGED << stopCalls, tickFired, unitVars, tally >>

\* The caller, whose ids are ids, calls sendEmail.
SubmitFrom(ids) == SubmitUpTo(ids, MaxSubmits)

Submit == SubmitFrom(ServiceIds)

\* The queue's invocation of the processor: processQueuedEmail runs up to its
\* first backoff sleep or its return.
StartRun ==
  \E m \in Unstarted, oks \in SendOutcomes :
    /\ BecomeService(processQueuedEmail(Service, m, oks))
    /\ tally' = tallyEvents(tally, m.id, processQueuedEmail(Service, m, oks).runLog[m.id], 1)
    /\ UNCHANGED << pool, enqueueCount, stopCalls, supplied, tickFired, unitVars, accepted >>

\* The timer of a backoff sleep fires.
Wake ==
  /\ Unstarted = {}
  /\ \E id \in DOMAIN runs, oks \in SendOutcomes :
       /\ runs[id].wake <= now
       /\ BecomeService(wakeUp(Service, id, oks))
       /\ tally' = tallyEvents(tally, id, wakeUp(Service, id, oks).runLog[id],
                               Len(runLog[id]) + 1)
  /\ UNCHANGED << pool, enqueueCount, stopCalls, supplied, tickFired, unitVars, accepted >>

ServiceTick == Unstarted = {} /\ Tick

ServiceRetryTimer == Unstarted = {} /\ RetryTimerDue

\* The caller calls shutdown().
Shutdown ==
  /\ Unstarted = {}
  /\ stopCalls < 2
  /\ BecomeService(shutdown(Service))
  /\ stopCalls' = stopCalls + 1
  /\ UNCHANGED << pool, enqueueCount, supplied, tickFired, unitVars, accepted, tally >>

\* The times at which a pending retry timer or backoff sleep is due.
Deadlines ==
  {Due(t) : t \in retryTimers}
    \cup {runs[id].wake : id \in DOMAIN runs}

Earliest(D) == CHOOSE d \in D : \A x \in D : d <= x

\* Time passes: up to the next timer that is due, or, with no such timer
\* pending, for a cooldown period.
Elapse ==
  /\ Unstarted = {}
  /\ now < MaxServiceTime
  /\ \A d \in Deadlines : now < d
  /\ Become([State EXCEPT !.now = IF Deadlines = {} THEN @ + cooldownPeriod
                                  ELSE Earliest(Deadlines)])
  /\ UNCHANGED << pool, enqueueCount, stopCalls, supplied, tickFired, serviceVars, unitVars, accepted, tally >>

NextService ==
  \/ Submit
  \/ StartRun
  \/ Wake
  \/ ServiceTick
  \/ ServiceRetryTimer
  \/ Elapse
  \/ Shutdown

SpecService == InitService /\ [][NextService]_vars

\* The service with a caller one of whose ids is an id that enqueue treats
\* on its own (index.ts 348-364).
ScaffoldIds == << "a", "test-1" >>

InitScaffold ==
  /\ config = DefaultConfig
  /\ pool = ScaffoldIds
  /\ Fresh

SubmitScaffold == SubmitFrom(ScaffoldIds)

NextScaffold ==
  \/ SubmitScaffold
  \/ StartRun
  \/ Wake
  \/ ServiceTick
  \/ ServiceRetryTimer
  \/ Elapse
  \/ Shutdown

SpecScaffold == InitScaffold /\ [][NextScaffold]_vars

\* -------------------------------------------------------- retryWithBackoff
\* retryWithBackoff(fn, retries, delay) on its own
\* (src/src/utils/retryWithBackoff.ts), called with any fn: each call of fn
\* resolves or rejects with some error, as the environment chooses.
\* rwb holds the arguments retries and delay, the local attempt, where the
\* call stands (pc: about to call fn at the loop head, asleep, returned,
\* thrown), and what it did: the number of calls of fn, the errors fn
\* rejected with, the sleeps it asked setTimeout for, the error it threw.
BackoffDelays == {100, 250}
Errors == {"E1", "E2"}

rwbCall(retries, delay) ==
  [ pc |-> "call", retries |-> retries, delay |-> delay, attempt |-> 0,
    calls |-> 0, raised |-> << >>, sleeps |-> << >>, wake |-> 0,
    error |-> "none" ]

InitBackoff ==
  /\ config = DefaultConfig
  /\ pool = << >>
  /\ FreshService
  /\ cb = NewBreaker
  /\ cbLog = << >>
  /\ rlLog = << >>
  /\ \E retries \in 0..MaxAttempts, delay \in BackoffDelays :
       rwb = rwbCall(retries, delay)

\* delay growing by delay with every attempt.
sleepLinear(r) == r.delay * (r.attempt + 1)

\* delay * 2 ** attempt.
sleepFor(r) == r.delay * Pow2(r.attempt)

\* retryWithBackoff throwing the error of its first failed attempt.
thrownFirst(r, error) == Head(r.raised)

\* throw error: the error caught from this call of fn.
thrown(r, error) == error

\* fn is called: return await fn().
calling(r) == [r EXCEPT !.calls = @ + 1]

\* fn resolved: retryWithBackoff returns its value.
fnResolved(r) == [r EXCEPT !.pc = "returned"]

\* fn rejected with error at time t: the catch block.
fnRejected(r, error, t) ==
  LET r1 == [r EXCEPT !.raised = Append(@, error)]
  IN IF r1.attempt = r1.retries - 1
     THEN [r1 EXCEPT !.pc = "thrown", !.error = thrown(r1, error)]
     ELSE [r1 EXCEPT !.pc = "sleep", !.sleeps = Append(@, sleepFor(r1)),
                     !.wake = t + sleepFor(r1)]

RwbResolve ==
  /\ rwb.pc = "call" /\ rwb.attempt < rwb.retries
  /\ rwb' = fnResolved(calling(rwb))
  /\ UNCHANGED << now, cb, cbLog, rlLog, restVars >>

RwbReject ==
  /\ rwb.pc = "call" /\ rwb.attempt < rwb.retries
  /\ \E error \in Errors : rwb' = fnRejected(calling(rwb), error, now)
  /\ UNCHANGED << now, cb, cbLog, rlLog, restVars >>

\* The loop ends without a return: throw new Error('Failed after retries').
RwbLoopEnds ==
  /\ rwb.pc = "call" /\ ~(rwb.attempt < rwb.retries)
  /\ rwb' = [rwb EXCEPT !.pc = "thrown", !.error = "Failed after retries"]
  /\ UNCHANGED << now, cb, cbLog, rlLog, restVars >>

\* Time passes up to the end of the sleep.
RwbElapse ==
  /\ rwb.pc = "sleep" /\ now < rwb.wake
  /\ now' = rwb.wake
  /\ UNCHANGED << unitVars, restVars >>

\* The sleep's timer fires: attempt++, and the loop goes on.
RwbWake ==
  /\ rwb.pc = "sleep" /\ rwb.wake <= now
  /\ rwb' = [rwb EXCEPT !.pc = "call", !.attempt = @ + 1]
  /\ UNCHANGED << now, cb, cbLog, rlLog, restVars >>

NextBackoff ==
  \/ RwbResolve
  \/ RwbReject
  \/ RwbLoopEnds
  \/ RwbElapse
  \/ RwbWake

SpecBackoff == InitBackoff /\ [][NextBackoff]_vars

\* ---------------------------------------------------------- CircuitBreaker
\* A CircuitBreaker on its own (src/unnamed/part_001): its caller calls
\* recordFailure, recordSuccess and isOpen in any order while time passes.
\* cbLog keeps the calls with the time of each and, for isOpen, the answer.
BreakerClockStep == cooldownPeriod \div 2

InitBreaker ==
  /\ config = DefaultConfig
  /\ pool = << >>
  /\ FreshService
  /\ rwb = NoCall
  /\ cb = NewBreaker
  /\ cbLog = << >>
  /\ rlLog = << >>

Called(op, t, val) == [op |-> op, t |-> t, val |-> val]

CbRecordFailure ==
  /\ Len(cbLog) < MaxBreakerCalls
  /\ cb' = recordFailure(cb, now)
  /\ cbLog' = Append(cbLog, Called("recordFailure", now, TRUE))
  /\ UNCHANGED << now, rwb, rlLog, restVars >>

CbRecordSuccess ==
  /\ Len(cbLog) < MaxBreakerCalls
  /\ cb' = recordSuccess(cb)
  /\ cbLog' = Append(cbLog, Called("recordSuccess", now, TRUE))
  /\ UNCHANGED << now, rwb, rlLog, restVars >>

\* isOpen() assigns no field.
CbIsOpen ==
  /\ Len(cbLog) < MaxBreakerCalls
  /\ cbLog' = Append(cbLog, Called("isOpen", now, isOpen(cb, now)))
  /\ UNCHANGED << now, cb, rwb, rlLog, restVars >>

\* Date.now() moves on.
CbElapse ==
  /\ now < MaxBreakerClockSteps * BreakerClockStep
  /\ now' = now + BreakerClockStep
  /\ UNCHANGED << unitVars, restVars >>

NextBreaker ==
  \/ CbRecordFailure
  \/ CbRecordSuccess
  \/ CbIsOpen
  \/ CbElapse

SpecBreaker == InitBreaker /\ [][NextBreaker]_vars

\* ----------------------------------------------------------- InMemoryStore
\* The rate limiter of an InMemoryStore on its own (src/unnamed/part_000):
\* its caller calls isRateLimited and markEmailSent for any recipient while
\* time passes.  rlLog keeps the calls with the time of each and, for
\* isRateLimited, the answer.  The clock takes the values around the ends of
\* the first two intervals.
StoreTimes ==
  { 0, 1, minInterval - 1, minInterval, minInterval + 1,
    2 * minInterval - 1, 2 * minInterval }

InitStore ==
  /\ config = DefaultConfig
  /\ pool = << >>
  /\ Fresh

\* markEmailSent(to).
markEmailSent(e, to) == [e EXCEPT !.rateLimit = Put(@, to, e.queue.now)]

StoreCall(op, to, t, ret) == [op |-> op, to |-> to, t |-> t, ret |-> ret]

StoreIsRateLimited ==
  /\ Len(rlLog) < MaxStoreCalls
  /\ \E to \in Range(Recipients) :
       LET r == isRateLimited(Service, to)
       IN /\ rateLimit' = r.state.rateLimit
          /\ rlLog' = Append(rlLog, StoreCall("isRateLimited", to, now, r.ret))
  /\ UNCHANGED << now, queueVars, breakers, status, runs, runLog, accepted, tally,
                  rwb, cb, cbLog >>

StoreMarkEmailSent ==
  /\ Len(rlLog) < MaxStoreCalls
  /\ \E to \in Range(Recipients) :
       /\ rateLimit' = markEmailSent(Service, to).rateLimit
       /\ rlLog' = Append(rlLog, StoreCall("markEmailSent", to, now, FALSE))
  /\ UNCHANGED << now, queueVars, breakers, status, runs, runLog, accepted, tally,
                  rwb, cb, cbLog >>

\* Date.now() moves on.
StoreElapse ==
  /\ \E t \in StoreTimes : now < t /\ now' = t
  /\ UNCHANGED << unitVars, restVars >>

NextStore ==
  \/ StoreIsRateLimited
  \/ StoreMarkEmailSent
  \/ StoreElapse

SpecStore == InitStore /\ [][NextStore]_vars

\* ------------------------------------------------- the rate limit in service
\* SpecRate is the service over two rate-limit intervals: the caller submits
\* up to MaxRateSubmits times, with new and used ids, to two recipients, at
\* the times of RateTimes.  The clock moves from one of these times to a
\* later one, so that a backoff or retry timer fires when it is due or later
\* (setTimeout promises no more).
RateTimes ==
  { 0, minInterval \div 2, minInterval - 1, minInterval,
    (3 * minInterval) \div 2, 2 * minInterval, (5 * minInterval) \div 2 }

SubmitRate == SubmitUpTo(ServiceIds, MaxRateSubmits)

RateElapse ==
  /\ \E t \in RateTimes : now < t /\ now' = t
  /\ UNCHANGED << unitVars, restVars >>

NextRate ==
  \/ SubmitRate
  \/ StartRun
  \/ Wake
  \/ ServiceTick
  \/ ServiceRetryTimer
  \/ Shutdown
  \/ RateElapse

SpecRate == InitService /\ [][NextRate]_vars

\* ------------------------------------------------------------------ claims
WaitingIds == {queue[i].id : i \in 1..Len(queue)}
InFlightIds == {m.id : m \in inflight}
RetryingIds == {t.message.id : t \in retryTimers}
AcceptedIds == DOMAIN supplied
Invoked(id) == Count(invoked, id)
Emitted(type, id) == Count(emitted, << type, id >>)

\* C1: in every reachable state the number of jobs in flight (processor
\* invoked, invocation not settled) is at most the configured maxConcurrent.
C1_InFlightWithinCap == Cardinality(inflight) <= config.maxConcurrent

\* C2: every processing tick removes from the wait list, and dispatches,
\* min(maxConcurrent, waitListLength) jobs, maxConcurrent being the configured
\* value and waitListLength the number of jobs waiting at the tick.
C2_TickTakesMinOfCapAndLength ==
  [][Tick =>
       /\ Len(queue) - Len(queue') = Min(config.maxConcurrent, Len(queue))
       /\ Cardinality(inflight' \ inflight) = Min(config.maxConcurrent, Len(queue))]_vars

\* C3: on a queue that is not stopped, the first enqueue (on the empty queue)
\* returns 1 and a second enqueue made before any processing tick fires
\* returns 2, for any job ids.
C3_EnqueueReturnsWaitingCount ==
  [][(Enqueue /\ ~isStopped /\ ~wasStopped) =>
       LET r == enqueue(State, Head(pool), supplied'[Head(pool)], 0).ret
       IN /\ enqueueCount = 0 => r = 1
          /\ (enqueueCount = 1 /\ ~tickFired) => r = 2]_vars

\* C4: among jobs all enqueued before any processing tick fires, with no
\* processor failure, a job of higher priority is dispatched no later than any
\* job of lower priority: no job has been dispatched while an accepted job of
\* higher priority has not.  (Stated on the states before the first timer
\* tick, where every job was enqueued before any tick.)
C4_HigherPriorityDispatchedFirst ==
  (~tickFired /\ failures = 0 /\ stopCalls = 0) =>
    \A j \in AcceptedIds, k \in AcceptedIds :
      (supplied[j] < supplied[k] /\ Invoked(k) > 0) => Invoked(j) > 0

\* C5: if stop() is called after enqueue(job) and before any timer-driven tick
\* has fired, the processor is never invoked for that job.
C5_StopBeforeTickMeansNoInvocation ==
  (stopCalls > 0 /\ ~tickFired) => \A id \in Ids : Invoked(id) = 0

\* C6: stop() is idempotent: from any reachable state, the object after
\* stop(); stop() is the object after a single stop().
C6_StopIdempotent == stop(stop(State)) = stop(State)

\* stop() was called twice, the first time with jobs in flight, and the
\* object is the one a further stop() leaves.
C6_Witness == stopCalls = 2 /\ inflight # {} /\ State = stop(State)

\* C7: Stopped is terminal: once stop() has returned the queue stays stopped
\* and not processing, and no processor invocation begins; a tick during which
\* the k-th selected job's processor calls stop() invokes exactly k processors.
C7_StoppedIsTerminal ==
  [][/\ stopCalls > 0 =>
          /\ isStopped' /\ wasStopped' /\ ~isProcessing'
          /\ invoked' = invoked
          /\ inflight' \subseteq inflight
     /\ \A k \in 1..HardCodedMaxConcurrent :
          (k <= batchSizeOf(State) /\ TickWith(k)) =>
             /\ isStopped'
             /\ Cardinality(inflight' \ inflight) = k]_vars

\* The queue was stopped after a timer tick while an accepted job had never
\* been dispatched (it never is), and enqueue was called after the stop.
C7_Witness ==
  /\ stopCalls > 0 /\ isStopped /\ tickFired
  /\ \E id \in AcceptedIds : Invoked(id) = 0 /\ Emitted("enqueued", id) = 1
  /\ enqueueCount > Cardinality(AcceptedIds)

\* C8: stop() is leak-free: in every state after stop() has returned the wait
\* list is empty, no tick timer is pending and no retry timer is pending, also
\* when jobs that were in flight at stop() settle (fail) afterwards.
C8_StopLeakFree ==
  stopCalls > 0 => (queue = << >> /\ ~timer /\ retryTimers = {})

\* stop() was called while a job was in flight and the invocation settled
\* afterwards (activeCount went below the 0 that stop() set), with another
\* still in flight.
C8_Witness == stopCalls > 0 /\ activeCount < 0 /\ inflight # {}

\* C9: enqueue on a stopped queue is a rejected no-op: it returns 0 and leaves
\* the object (wait list, events, timers) unchanged, for every id and priority.
C9_EnqueueOnStoppedRejected ==
  stopCalls > 0 =>
    \A id \in Ids, priority \in Priorities :
      enqueue(State, id, priority, 0) = [state |-> State, ret |-> 0]

\* enqueue was called on a stopped queue.
C9_Witness == stopCalls > 0 /\ enqueueCount > Cardinality(AcceptedIds)

\* C10: every job in the wait list, in flight or held by a retry timer has
\* retryCount <= maxRetries, and a job declared failed (retryCount exceeded
\* maxRetries) is in none of them.
C10_RetryCountBounded ==
  /\ \A m \in Range(queue) \cup inflight : m.retryCount <= config.maxRetries
  /\ \A t \in retryTimers : t.message.retryCount <= config.maxRetries
  /\ \A id \in Ids :
       Emitted("failed", id) > 0 =>
         id \notin WaitingIds \cup InFlightIds \cup RetryingIds

\* One job was declared failed while another, requeued or not, is waiting.
C10_Witness ==
  /\ \E id \in Ids : Emitted("failed", id) > 0
  /\ queue # << >>

\* The queue was never stopped and holds nothing more: no job waits, is in
\* flight or is held by a retry timer.
Quiescent ==
  stopCalls = 0 /\ queue = << >> /\ inflight = {} /\ retryTimers = {}

\* C11: on a queue never stopped, a job whose every processor invocation
\* failed has, once nothing more can happen for it, been invoked exactly
\* maxRetries + 1 times, requeued exactly maxRetries times and declared failed
\* exactly once, with retryCount = maxRetries + 1.
C11_AlwaysFailingJobRunsToFailed ==
  Quiescent =>
    \A id \in AcceptedIds :
      Emitted("processed", id) = 0 =>
        /\ Invoked(id) = config.maxRetries + 1
        /\ Emitted("requeued", id) = config.maxRetries
        /\ Emitted("failed", id) = 1
        /\ Count(failedWith, id) = config.maxRetries + 1

Requeued(id) == Emitted("requeued", id)

\* C12: a job re-enters the wait list as a retry ("requeued") only when the
\* retry timer set at its k-th failure fires, 1 <= k <= maxRetries, exactly
\* retryDelay * 2^(k-1) after that failure (100 ms for k = 1 and 200 ms for
\* k = 2 with retryDelay = 100), and only while the queue is processing and
\* not stopped.
C12_RequeuedAfterBackoff ==
  [][\A id \in Ids :
       Requeued(id)' > Requeued(id) =>
         \E t \in retryTimers :
           LET k == t.message.retryCount
           IN /\ t.message.id = id
              /\ t \notin retryTimers'
              /\ t.message \in Range(queue')
              /\ k \in 1..config.maxRetries
              /\ now - t.setAt = config.retryDelay * 2 ^ (k - 1)
              /\ k = 1 => now - t.setAt = 100
              /\ k = 2 => now - t.setAt = 200
              /\ isProcessing /\ ~isStopped]_vars

\* A job failed twice and was requeued twice, 100 ms after the first failure
\* and 200 ms after the second; it waits with retryCount 2.
C12_Witness ==
  /\ stopCalls = 0
  /\ \E m \in Range(queue) : m.retryCount = 2 /\ Requeued(m.id) = 2
  /\ now >= 300

\* C13: in every state of a queue that was never stopped, the gauge active
\* equals the number of jobs in flight (processor invoked, invocation not yet
\* settled), and so is 0 when every invocation has settled.
C13_ActiveIsInFlightCount ==
  stopCalls = 0 => active(State) = Cardinality(inflight)

\* C14: in every state of a queue that was never stopped, the gauge length
\* equals the number of jobs in the wait list, whatever their ids, and so is 0
\* when every waiting job has been dispatched.
C14_LengthIsWaitingCount ==
  stopCalls = 0 => length(State) = Len(queue)

\* Each job is in at most one place, once: waiting, in flight, or held by a
\* retry timer.
InOnePlace ==
  /\ WaitingIds \cap InFlightIds = {}
  /\ RetryingIds \cap (WaitingIds \cup InFlightIds) = {}
  /\ Cardinality(WaitingIds) = Len(queue)
  /\ Cardinality(InFlightIds) = Cardinality(inflight)
  /\ Cardinality(RetryingIds) = Cardinality(retryTimers)

\* C15: a job is never at once in the wait list and in flight and never
\* twice in the wait list: a job whose processor is invoked has left the wait
\* list, and a job that was dispatched before enters the wait list again only
\* when its retry timer fires, which is after the invocation settled with a
\* failure.
C15_WaitingOrInFlightNeverBoth ==
  [][/\ InOnePlace /\ InOnePlace'
     /\ \A id \in Ids :
          /\ Invoked(id)' > Invoked(id) =>
               (id \notin WaitingIds' /\ id \in InFlightIds')
          /\ (id \in WaitingIds' /\ id \notin WaitingIds /\ Invoked(id) > 0) =>
               /\ id \in RetryingIds /\ id \notin RetryingIds'
               /\ Requeued(id)' = Requeued(id) + 1
               /\ \E m \in Range(queue') : m.id = id /\ m.retryCount >= 1]_vars

\* A job that failed waits again, requeued by its retry timer, while another
\* job is in flight.
C15_Witness ==
  /\ stopCalls = 0
  /\ inflight # {}
  /\ \E m \in Range(queue) : m.retryCount >= 1 /\ Requeued(m.id) = 1

Terminal(id) == Emitted("processed", id) + Emitted("failed", id)

\* C16: no outcome is silently discarded: on a queue never stopped, every job
\* that enqueue accepted has produced at most one terminal event ("processed"
\* or "failed", never both), and one that has produced none is still held by
\* the queue (waiting, in flight or with a retry timer pending), so that fair
\* ticks, timers and settling bring it to its terminal event.  A job held
\* nowhere and without a terminal event never produces one.
C16_NoOutcomeDiscarded ==
  stopCalls = 0 =>
    \A id \in AcceptedIds :
      /\ Terminal(id) <= 1
      /\ Terminal(id) = 0 => id \in WaitingIds \cup InFlightIds \cup RetryingIds

\* What a caller observes of the object s about job id: the gauges, the
\* number of jobs waiting, the number of invocations for the job, and the
\* priority the queue holds for it.
Observed(s, id) ==
  [ length |-> length(s),
    active |-> active(s),
    waiting |-> Len(s.queue),
    invoked |-> Count(s.invoked, id),
    priority |-> {m.priority : m \in {x \in Range(s.queue) \cup s.inflight : x.id = id}} ]

\* C17: the scheduler's behaviour does not depend on the literal value of a
\* job id: from any state of a queue never stopped, two runs that continue
\* with the same enqueue call, same priority, on two unused ids that differ
\* only in their literal value get the same return value, the same dispatch
\* of the job, the same gauge values, and the queue uses the priority the
\* caller supplied.
C17_IdIndependent ==
  stopCalls = 0 =>
    \A i \in Ids \ AcceptedIds, j \in Ids \ AcceptedIds, p \in Priorities :
      LET ri == enqueue(State, i, p, 0)
          rj == enqueue(State, j, p, 0)
      IN /\ ri.ret = rj.ret
         /\ Observed(ri.state, i) = Observed(rj.state, j)
         /\ Observed(ri.state, i).priority = {p}

\* ------------------------------------------------- claims on EmailService
\* The events of op on provider i in a run's log, by position.
At(log, op, i) == {k \in 1..Len(log) : log[k].op = op /\ log[k].i = i}
Skipped(log, i) == \E k \in At(log, "isOpen", i) : log[k].val
Returned(log) == Len(log) > 0 /\ log[Len(log)].op = "return"
Result(log) == log[Len(log)].val

\* C18: in one run of the processor, a provider whose breaker answered
\* isOpen() = true when the run reached it is skipped: the run invokes no send
\* on it and calls neither recordFailure nor recordSuccess on its breaker.
C18_OpenBreakerSkipped ==
  \A id \in DOMAIN runLog, i \in 1..NumProviders :
    Skipped(runLog[id], i) =>
      /\ At(runLog[id], "send", i) = {}
      /\ At(runLog[id], "recordFailure", i) = {}
      /\ At(runLog[id], "recordSuccess", i) = {}
      /\ Cardinality(At(runLog[id], "isOpen", i)) = 1

\* A run found the first provider's breaker open, skipped it, sent through
\* the second provider and returned.
C18_Witness ==
  \E id \in DOMAIN runLog :
    /\ Skipped(runLog[id], 1)
    /\ At(runLog[id], "send", 2) # {}
    /\ Returned(runLog[id])

\* The positions of the run's log before position k.
Before(S, k) == {x \in S : x < k}

\* C19: within one run of the processor the providers are attempted strictly
\* in list order and the iteration stops at the first success: a send on a
\* provider comes only after every earlier provider was skipped or exhausted
\* its retryWithBackoff attempts (and had its failure recorded), no provider
\* gets more sends than that, and after a success nothing follows but the
\* run's return of true.
C19_InOrderUntilFirstSuccess ==
  \A id \in DOMAIN runLog :
    LET log == runLog[id]
    IN /\ \A k \in 1..Len(log), l \in 1..Len(log) :
            (k < l /\ log[l].op # "return") => log[k].i <= log[l].i
       /\ \A j \in 1..NumProviders :
            /\ Cardinality(At(log, "send", j)) <= backoffRetries
            /\ \A k \in At(log, "send", j) \cup At(log, "isOpen", j), i \in 1..(j - 1) :
                 \/ \E x \in Before(At(log, "isOpen", i), k) : log[x].val
                 \/ /\ Cardinality(Before(At(log, "send", i), k)) = backoffRetries
                    /\ Before(At(log, "recordFailure", i), k) # {}
            /\ \A k \in At(log, "recordSuccess", j) :
                 /\ k = Len(log) - 1
                 /\ log[k - 1] = Event("send", j, TRUE)
                 /\ log[Len(log)] = Event("return", 0, TRUE)

\* A run exhausted its three attempts on the first provider, recorded the
\* failure, succeeded on the second provider and returned true.
C19_Witness ==
  \E id \in DOMAIN runLog :
    LET log == runLog[id]
    IN /\ Cardinality(At(log, "send", 1)) = backoffRetries
       /\ At(log, "recordFailure", 1) # {}
       /\ At(log, "recordSuccess", 2) # {}
       /\ Returned(log) /\ Result(log)

\* The messages of job id that the queue holds, waiting or on a retry timer.
Held(id) ==
  {m \in Range(queue) \cup {t.message : t \in retryTimers} : m.id = id}

\* C20: a run of the processor returns failure exactly when every provider
\* was skipped (breaker open) or exhausted its retryWithBackoff attempts, and
\* it then records the status "All providers failed" (which the queue's
\* "failed" event, if this was the last retry, replaces by "Failed in queue");
\* on a queue never stopped the failed run consumes one queue-level retry,
\* also when all breakers were open and no send was invoked at all.
C20_AllProvidersFailed ==
  \A id \in DOMAIN runLog :
    LET log == runLog[id]
    IN (Returned(log) /\ id \notin InFlightIds) =>
         /\ ~Result(log) <=>
              \A i \in 1..NumProviders :
                \/ Skipped(log, i)
                \/ /\ Cardinality(At(log, "send", i)) = backoffRetries
                   /\ At(log, "recordFailure", i) # {}
         /\ ~Result(log) =>
              /\ status[id] = IF Emitted("failed", id) > 0 THEN "Failed in queue"
                              ELSE "All providers failed"
              /\ stopCalls = 0 =>
                   \/ /\ Emitted("failed", id) = 0
                      /\ Held(id) # {}
                      /\ \A m \in Held(id) : m.retryCount = Invoked(id)
                   \/ /\ Emitted("failed", id) = 1
                      /\ Held(id) = {}
                      /\ Count(failedWith, id) = Invoked(id)

\* With both breakers open a run invoked no send and returned failure; the
\* queue, never stopped, holds the job for its next retry.
C20_Witness ==
  \E id \in DOMAIN runLog :
    /\ stopCalls = 0
    /\ \A i \in 1..NumProviders : Skipped(runLog[id], i) /\ At(runLog[id], "send", i) = {}
    /\ Returned(runLog[id]) /\ ~Result(runLog[id])
    /\ status[id] = "All providers failed"
    /\ \E m \in Held(id) : m.retryCount = Invoked(id)

\* The number of calls of op on provider i in a run's log.
Calls(log, op, i) == Cardinality(At(log, op, i))

\* In this run the first provider's sends all rejected and the second's all
\* resolved, and neither breaker was open.
FirstFailsSecondSucceeds(log) ==
  /\ \A i \in 1..NumProviders : ~Skipped(log, i)
  /\ \A k \in At(log, "send", 1) : ~log[k].val
  /\ \A k \in At(log, "send", 2) : log[k].val

\* C21: end to end with the first provider always failing and the second
\* always succeeding, a submitted job ends with status "Sent via ProviderB";
\* in its run the first provider's breaker got exactly one recordFailure (one
\* for the exhausted retryWithBackoff, after its three failed sends, not one
\* per failed send) and no recordSuccess, the second provider's breaker got
\* exactly one recordSuccess and no recordFailure, and the second provider was
\* sent to once.
C21_FailoverToSecondProvider ==
  \A id \in DOMAIN runLog :
    LET log == runLog[id]
    IN (Returned(log) /\ FirstFailsSecondSucceeds(log)) =>
         /\ Result(log)
         /\ status[id] = SentVia(2)
         /\ Calls(log, "send", 1) = backoffRetries
         /\ Calls(log, "recordFailure", 1) = 1
         /\ Calls(log, "recordSuccess", 1) = 0
         /\ Calls(log, "send", 2) = 1
         /\ Calls(log, "recordSuccess", 2) = 1
         /\ Calls(log, "recordFailure", 2) = 0
         /\ (enqueueCount = 1 /\ Invoked(id) = 1) =>
              /\ breakers[1].failureCount = 1
              /\ breakers[2].failureCount = 0
              /\ Emitted("processed", id) = 1 \/ stopCalls > 0

\* One job was submitted to a fresh service; its run failed three times on the
\* first provider, succeeded on the second, and the queue emitted "processed".
C21_Witness ==
  \E id \in DOMAIN runLog :
    /\ enqueueCount = 1 /\ Invoked(id) = 1
    /\ Returned(runLog[id]) /\ FirstFailsSecondSucceeds(runLog[id])
    /\ Calls(runLog[id], "send", 1) = backoffRetries
    /\ status[id] = SentVia(2)
    /\ breakers[1].failureCount = 1
    /\ Emitted("processed", id) = 1

\* The arguments a caller may pass to sendEmail.
AllRecipients == Range(Recipients)
AllPriorities == {HIGH, NORMAL, LOW}

\* C22: in every reachable state, sendEmail with an id already seen returns
\* "Duplicate" and changes nothing, whatever the recipient and the priority:
\* the statuses and the set of seen ids, the rate-limit timestamps (the check
\* is not run, also for a recipient never seen), the wait list, the emitted
\* events and the rest of the queue, the breakers and the runs are as before.
C22_DuplicateHasNoEffect ==
  \A id \in DOMAIN status, to \in AllRecipients, priority \in AllPriorities :
    /\ sendEmail(Service, id, to, priority).ret = "Duplicate"
    /\ sendEmail(Service, id, to, priority).state = Service

\* Two calls of sendEmail were made, both with the first id: the second one
\* found the id seen.
C22_Witness ==
  /\ enqueueCount = 2
  /\ Len(pool) = Len(ServiceIds) - 1
  /\ DOMAIN status = {Head(ServiceIds)}
  /\ Emitted("enqueued", Head(ServiceIds)) = 1

\* C23: in every reachable state, sendEmail with an unseen id to a recipient
\* that the rate limiter reports limited returns "Rate limited" and creates no
\* job: the wait list and the rest of the queue, the statuses and the set of
\* seen ids (the id stays unseen, so that a later sendEmail with it is not a
\* duplicate) and the recipient's last-sent timestamp are as before.
C23_RateLimitedCreatesNoJob ==
  \A id \in Range(ServiceIds) \ DOMAIN status, to \in AllRecipients,
     priority \in AllPriorities :
    isRateLimited(Service, to).ret =>
      LET r == sendEmail(Service, id, to, priority)
      IN /\ r.ret = "Rate limited"
         /\ r.state = Service
         /\ ~isDuplicate(r.state, id)
         /\ \A to2 \in AllRecipients :
              sendEmail(r.state, id, to2, priority).ret # "Duplicate"

\* The second call of sendEmail, with a new id, went to the recipient of the
\* first one after time had passed, and was refused: one id is seen, one
\* recipient is stamped, with the time of the first call.
C23_Witness ==
  /\ enqueueCount = 2
  /\ pool = << >>
  /\ DOMAIN status = {Head(ServiceIds)}
  /\ DOMAIN rateLimit = {Head(Recipients)}
  /\ rateLimit[Head(Recipients)] = 0
  /\ now > 0

\* The number of jobs with this id that the queue holds: waiting, in flight
\* or on a retry timer.
JobsOf(id) ==
  Cardinality({k \in 1..Len(queue) : queue[k].id = id})
    + Cardinality({m \in inflight : m.id = id})
    + Cardinality({t \in retryTimers : t.message.id = id})

\* A job was created for seen ids only; a seen id is refused as a duplicate
\* whatever the recipient; one job at most was enqueued
\* for it, the queue holds it at most once, and every invocation of the
\* processor on it is that job's first dispatch or one of its retries.
OneJobPerId(id) ==
  /\ Emitted("enqueued", id) <= 1
  /\ JobsOf(id) <= Emitted("enqueued", id)
  /\ Invoked(id) <= Emitted("enqueued", id) + Emitted("requeued", id)
  /\ id \in DOMAIN status =>
       \A to \in AllRecipients, priority \in ServicePriorities :
         sendEmail(Service, id, to, priority).ret = "Duplicate"
  /\ id \notin DOMAIN status => Emitted("enqueued", id) = 0

\* C24: submission is idempotent.  Once sendEmail has returned "Queued" for an
\* id (the id is seen), the id stays seen for ever, every later sendEmail with
\* it returns "Duplicate" and enqueues nothing, so that over any sequence of
\* submissions at most one job with a given id is enqueued and dispatched.
C24_SubmitIdempotent ==
  [][ /\ DOMAIN status \subseteq DOMAIN status'
      /\ \A id \in DOMAIN status :
           Emitted("enqueued", id)' = Emitted("enqueued", id)
      /\ \A id \in Range(ServiceIds) : OneJobPerId(id)' ]_vars

\* Two calls of sendEmail with the same id were made; the one job was
\* enqueued once and, after a failed run, dispatched a second time.
C24_Witness ==
  /\ enqueueCount = 2
  /\ Len(pool) = Len(ServiceIds) - 1
  /\ Emitted("enqueued", Head(ServiceIds)) = 1
  /\ Invoked(Head(ServiceIds)) = 2

\* Job id was enqueued on a queue never stopped, its last run has returned
\* failure (a run that succeeds is the job's last), and the queue holds it no
\* more: it has ended, every one of its runs having failed.
EndedFailing(id) ==
  /\ stopCalls = 0
  /\ Emitted("enqueued", id) = 1
  /\ id \in DOMAIN runLog /\ Returned(runLog[id]) /\ ~Result(runLog[id])
  /\ JobsOf(id) = 0

\* C25: when the queue emits its terminal "failed" event for a job, the
\* service records the status "Failed in queue" for it, and the status stays;
\* so a job whose every run of the processor fails ends with the status
\* "Failed in queue", not with the run's own "All providers failed".
C25_FailedInQueue ==
  \A id \in DOMAIN status :
    /\ Emitted("failed", id) > 0 => status[id] = "Failed in queue"
    /\ EndedFailing(id) => status[id] = "Failed in queue"

\* ------------------------------------------- claims on retryWithBackoff
\* What a call of retryWithBackoff with retries >= 1 has done so far: fn was
\* called at most retries times; every failed attempt but the last was
\* followed by one sleep, the k-th of them of delay * 2^(k-1) ms; after a
\* success and after the last failed attempt there was neither a sleep nor
\* another call.
RetryPolicyKept(r) ==
  r.retries >= 1 =>
    /\ r.calls <= r.retries
    /\ Len(r.sleeps) <= r.retries - 1
    /\ \A k \in 1..Len(r.sleeps) : r.sleeps[k] = r.delay * 2^(k - 1)
    /\ r.pc = "call" =>
         r.calls = r.attempt /\ Len(r.raised) = r.calls /\ Len(r.sleeps) = r.calls
    /\ r.pc = "sleep" =>
         r.calls = r.attempt + 1 /\ Len(r.raised) = r.calls /\ Len(r.sleeps) = r.calls
    /\ r.pc = "returned" =>
         Len(r.raised) = r.calls - 1 /\ Len(r.sleeps) = r.calls - 1
    /\ r.pc = "thrown" =>
         r.calls = r.retries /\ Len(r.raised) = r.calls /\ Len(r.sleeps) = r.calls - 1

\* C26: retryWithBackoff(fn, retries, delay) with retries >= 1 calls fn at
\* most retries times, stops at the first call that resolves with no further
\* call or sleep, sleeps delay * 2^i ms after its i-th failed attempt (i from
\* 0) and not after the last one; once it has returned or thrown it does
\* nothing more.
C26_RetryPolicy ==
  [][ /\ rwb.pc \in {"call", "sleep"}
      /\ RetryPolicyKept(rwb) /\ RetryPolicyKept(rwb')
      /\ (rwb.pc = "call" /\ rwb'.pc = "sleep") =>
           rwb'.wake = now + rwb.delay * 2^rwb.attempt
      /\ (rwb.pc = "sleep" /\ rwb'.pc = "call") => now >= rwb.wake ]_vars

\* Called with 3 attempts and delay 100, fn failed twice and then resolved:
\* three calls, sleeps of 100 and 200 ms.
C26_Witness ==
  /\ rwb.pc = "returned"
  /\ rwb.retries = 3 /\ rwb.delay = 100
  /\ rwb.calls = 3
  /\ rwb.sleeps = << 100, 200 >>
  /\ now = 300

\* C27: when every one of the retries >= 1 attempts fails, fn has been called
\* exactly retries times and retryWithBackoff throws the error of the last
\* call, as it is; and it throws in no other case.
C27_LastErrorPropagates ==
  rwb.retries >= 1 =>
    /\ rwb.pc = "thrown" =>
         /\ rwb.calls = rwb.retries
         /\ Len(rwb.raised) = rwb.retries
         /\ rwb.error = rwb.raised[Len(rwb.raised)]
    /\ Len(rwb.raised) = rwb.retries => rwb.pc = "thrown"

\* Three attempts failed, the last with another error than the first two;
\* that last error is the one thrown.
C27_Witness ==
  /\ rwb.pc = "thrown"
  /\ rwb.retries = 3
  /\ rwb.raised = << "E1", "E1", "E2" >>
  /\ rwb.error = "E2"

\* --------------------------------------------- claims on CircuitBreaker
\* From the calls made so far: the recordFailure and recordSuccess calls, the
\* number of recordFailure calls since the last recordSuccess, and the time
\* of the last recordFailure (0 when there was none).
Recorded(log) == SelectSeq(log, LAMBDA c : c.op # "isOpen")
LastOf(log, op) ==
  LET at == {k \in 1..Len(log) : log[k].op = op}
  IN IF at = {} THEN 0 ELSE CHOOSE k \in at : \A j \in at : j <= k
FailuresSinceSuccess(log) ==
  Len(Recorded(log)) - LastOf(Recorded(log), "recordSuccess")
LastFailureAt(log) ==
  IF LastOf(log, "recordFailure") = 0 THEN 0
  ELSE log[LastOf(log, "recordFailure")].t
ShouldBeOpen(log, t) ==
  /\ FailuresSinceSuccess(log) >= failureThreshold
  /\ t - LastFailureAt(log) < cooldownPeriod

\* C28: after every sequence of recordFailure, recordSuccess and isOpen calls
\* and clock advances, isOpen() answers true exactly when the number of
\* recordFailure calls since the last recordSuccess is at least
\* failureThreshold and less than cooldownPeriod ms have passed since the last
\* recordFailure; the fields are that number and that time, so that the
\* isOpen() calls on the way changed nothing.
C28_OpenIffCountAndCooldown ==
  /\ isOpen(cb, now) <=> ShouldBeOpen(cbLog, now)
  /\ cb.failureCount = FailuresSinceSuccess(cbLog)
  /\ cb.lastFailureTime = LastFailureAt(cbLog)
  /\ \A k \in 1..Len(cbLog) :
       cbLog[k].op = "isOpen" =>
         (cbLog[k].val <=> ShouldBeOpen(SubSeq(cbLog, 1, k - 1), cbLog[k].t))

\* isOpen() answered true after three failures, then false when the cooldown
\* was over.
C28_Witness ==
  \E k \in 1..Len(cbLog), l \in 1..Len(cbLog) :
    /\ k < l
    /\ cbLog[k].op = "isOpen" /\ cbLog[k].val
    /\ cbLog[l].op = "isOpen" /\ ~cbLog[l].val
    /\ cbLog[l].t - cbLog[k].t >= cooldownPeriod
    /\ \A j \in 1..Len(cbLog) : cbLog[j].op # "recordSuccess"

\* The last call made, when a call was made in this step.
JustCalled(op) ==
  /\ cbLog' # cbLog
  /\ cbLog'[Len(cbLog')].op = op

\* With failureThreshold failures or more and no success since, the breaker
\* is closed once the cooldown since the last failure is over.
ClosedAfterCooldown(b, log, t) ==
  (FailuresSinceSuccess(log) >= failureThreshold
     /\ t - LastFailureAt(log) >= cooldownPeriod) => ~isOpen(b, t)

\* C29: the failure counter is sticky.  After failureThreshold failures with
\* no success in between, isOpen() is false once the cooldown is over, and one
\* further recordFailure() makes it true again at once, for a full cooldown
\* from that failure; a step in which only time passes changes no field.
C29_StickyCounter ==
  [][ /\ cbLog' = cbLog => cb' = cb
      /\ ClosedAfterCooldown(cb, cbLog, now)
      /\ ClosedAfterCooldown(cb', cbLog', now')
      /\ (JustCalled("recordFailure")
            /\ FailuresSinceSuccess(cbLog) >= failureThreshold) =>
           /\ cb'.failureCount = cb.failureCount + 1
           /\ isOpen(cb', now')
           /\ isOpen(cb', now' + cooldownPeriod - 1)
           /\ ~isOpen(cb', now' + cooldownPeriod) ]_vars

\* Three failures, then a fourth when the cooldown was over, no success: the
\* breaker is open again.
C29_Witness ==
  LET m == Recorded(cbLog)
  IN /\ Len(m) = failureThreshold + 1
     /\ \A k \in 1..Len(m) : m[k].op = "recordFailure"
     /\ m[Len(m)].t - m[Len(m) - 1].t >= cooldownPeriod
     /\ now = m[Len(m)].t
     /\ isOpen(cb, now)

\* C30: recordSuccess() sets failureCount to 0 and leaves lastFailureTime as
\* it is; right after it isOpen() is false, and it stays false, whatever the
\* time, as long as fewer than failureThreshold recordFailure() calls have
\* been made since the last recordSuccess().
C30_SuccessResets ==
  [][ /\ JustCalled("recordSuccess") =>
           /\ cb'.failureCount = 0
           /\ cb'.lastFailureTime = cb.lastFailureTime
           /\ ~isOpen(cb', now')
      /\ FailuresSinceSuccess(cbLog') < failureThreshold =>
           \A k \in 0..MaxBreakerClockSteps : ~isOpen(cb', now' + k * BreakerClockStep) ]_vars

\* The breaker was open, with its last failure later than time 0, when
\* recordSuccess() was called: it is closed, and the time of the last failure
\* is kept.
C30_Witness ==
  LET m == Recorded(cbLog)
  IN /\ Len(m) = failureThreshold + 1
     /\ \A k \in 1..failureThreshold : m[k].op = "recordFailure"
     /\ m[Len(m)].op = "recordSuccess"
     /\ m[Len(m)].t - m[failureThreshold].t < cooldownPeriod
     /\ cb.lastFailureTime = m[failureThreshold].t
     /\ cb.lastFailureTime > 0
     /\ cb.failureCount = 0
     /\ ~isOpen(cb, now)

\* ---------------------------------------------- claims on InMemoryStore
\* The calls before position k of the log that stamped recipient to: the
\* isRateLimited calls that answered not limited, and the markEmailSent calls.
Stamps(log, k, to) ==
  {j \in 1..(k - 1) : log[j].to = to /\ ~log[j].ret}

\* The answer that the k-th call of the log should have got: limited iff the
\* recipient's latest stamp is less than 60000 / rateLimitPerMinute ms old.
ShouldBeLimited(log, k) ==
  LET S == Stamps(log, k, log[k].to)
  IN /\ S # {}
     /\ log[k].t - log[CHOOSE j \in S : \A i \in S : i <= j].t
          < 60000 \div rateLimitPerMinute

\* C31: isRateLimited is a state transition.  For recipient R at time now it
\* answers limited iff R has a timestamp T with now - T < 60000 /
\* rateLimitPerMinute, and it sets R's timestamp to now exactly when it
\* answers not limited, leaving every other timestamp, and R's on a limited
\* answer, as they are; so every answer in a sequence of calls is the one
\* given by the time of the recipient's latest not-limited answer.
C31_RateLimitCheckIsTransition ==
  [][ (rlLog' # rlLog /\ rlLog'[Len(rlLog')].op = "isRateLimited") =>
        LET c == rlLog'[Len(rlLog')]
        IN /\ c.ret <=> /\ c.to \in DOMAIN rateLimit
                        /\ now - rateLimit[c.to] < 60000 \div rateLimitPerMinute
           /\ rateLimit' = IF c.ret THEN rateLimit ELSE Put(rateLimit, c.to, now)
           /\ c.ret <=> ShouldBeLimited(rlLog', Len(rlLog')) ]_vars

\* With 5 per minute, one recipient was checked at 0, 0, 11999 and 12000:
\* not limited, limited, limited, not limited.
C31_Witness ==
  /\ Len(rlLog) = 4
  /\ \A k \in 1..4 : rlLog[k].op = "isRateLimited" /\ rlLog[k].to = Head(Recipients)
  /\ << rlLog[1].t, rlLog[2].t, rlLog[3].t, rlLog[4].t >> = << 0, 0, 11999, 12000 >>
  /\ << rlLog[1].ret, rlLog[2].ret, rlLog[3].ret, rlLog[4].ret >>
       = << FALSE, TRUE, TRUE, FALSE >>
  /\ rateLimit[Head(Recipients)] = 12000


\* C32: in every reachable state the wait list is ordered by priority
\* ascending (HIGH before NORMAL before LOW), after any sequence of enqueues
\* and requeues and for any job ids.
C32_WaitListOrdered ==
  \A i \in 1..Len(queue), j \in 1..Len(queue) :
    i < j => queue[i].priority <= queue[j].priority


\* The queue is between its first accepted enqueue and stop().
Running == isProcessing /\ ~isStopped

\* A step in which the tick timer fired and no processor called stop(): no
\* enqueue, no stop(), no retry timer gone, no invocation settled, and the
\* clock as it was.
TickStep ==
  /\ timer
  /\ now' = now
  /\ enqueueCount' = enqueueCount
  /\ stopCalls' = stopCalls
  /\ retryTimers' = retryTimers
  /\ inflight \subseteq inflight'

InWaitList(q, id) == \E i \in 1..Len(q) : q[i].id = id

C34_ThrowIsFalse ==
  \A m \in inflight :
    LET afterThrow == settle(State, m, "throw")
        afterFalse == settle(State, m, "false")
        count == m.retryCount + 1
    IN /\ afterThrow = afterFalse
       /\ afterThrow.activeCount = activeCount - 1
       /\ afterThrow.inflight = inflight \ {m}
       /\ afterThrow.timer = timer
       /\ afterThrow.isProcessing = isProcessing
       /\ afterThrow.isStopped = isStopped
       /\ afterThrow.queue = queue
       /\ ~isStopped =>
            /\ afterThrow.failures = failures + 1
            /\ IF count <= config.maxRetries
               THEN /\ afterThrow.retryTimers \ retryTimers =
                         {[message |-> [m EXCEPT !.retryCount = count],
                           delay |-> config.retryDelay * 2 ^ (count - 1),
                           setAt |-> now]}
                    /\ afterThrow.emitted = emitted
               ELSE /\ afterThrow.retryTimers = retryTimers
                    /\ afterThrow.emitted = Bump(emitted, << "failed", m.id >>)
                    /\ afterThrow.failedWith[m.id] = count

\* An invocation has failed and its job waits on a retry timer while another
\* invocation is in flight.
C34_Witness ==
  /\ failures = 1
  /\ retryTimers # {}
  /\ inflight # {}
  /\ ~isStopped


LoggedBefore(id) == IF id \in DOMAIN runs THEN Len(runLog[id]) ELSE 0

\* C36: send is never invoked on a backend while that backend's breaker
\* reports isOpen() = true: every send a step makes either follows at once the
\* isOpen() check of its provider that answered false, or is the attempt made
\* after a backoff sleep, and then the provider's breaker is not open at the
\* time of the attempt.
C36_NoSendWhileOpen ==
  [][ \A id \in DOMAIN runLog' :
        (id \notin DOMAIN runLog \/ runLog'[id] # runLog[id]) =>
          LET log == runLog'[id]
          IN \A k \in (LoggedBefore(id) + 1)..Len(log) :
               log[k].op = "send" =>
                 IF k > 1 /\ log[k - 1] = Event("isOpen", log[k].i, FALSE)
                 THEN TRUE
                 ELSE ~isOpen(breakers[log[k].i], now)
    ]_vars


\* The statuses with which a job ends.
TerminalStatus(st) == st \in {SentVia(i) : i \in 1..NumProviders} \cup {"Failed in queue"}

\* C37: terminal statuses are stable: once the status of an id is
\* "Sent via <backend>" or "Failed in queue", no step (a tick, a retry timer,
\* a run going on or returning, a submit with the same id, shutdown) changes it.
C37_TerminalStable ==
  [][ \A id \in DOMAIN status :
        TerminalStatus(status[id]) => (id \in DOMAIN status' /\ status'[id] = status[id])
    ]_vars

\* One job has ended "Failed in queue", the other "Sent via ProviderB", the
\* service has been shut down.
C37_Witness ==
  /\ \E id \in DOMAIN status : status[id] = "Failed in queue"
  /\ \E id \in DOMAIN status : status[id] = SentVia(2)
  /\ isStopped


\* Ids that sendEmail accepted after shutdown(): they have a status and the
\* queue never emitted "enqueued" for them.
AcceptedAfterShutdown == {id \in DOMAIN status : Emitted("enqueued", id) = 0}

\* C38: after shutdown(), a submit that passes the duplicate and rate-limit
\* checks records the status "Queued", marks the id as seen, stamps the
\* recipient and returns Queued, but creates no job (enqueue returns 0); the
\* backends are never invoked for the id and its status stays "Queued".
C38_SubmitAfterShutdown ==
  [][ /\ (stopCalls >= 1 /\ enqueueCount' = enqueueCount + 1) =>
           \A id \in DOMAIN status' \ DOMAIN status :
             /\ status'[id] = "Queued"
             /\ isDuplicate(Service', id)
             /\ \E to \in DOMAIN rateLimit' :
                  /\ rateLimit'[to] = now
                  /\ to \in DOMAIN accepted'
                  /\ accepted'[to] # << >>
                  /\ accepted'[to][Len(accepted'[to])] = now
                  /\ rateLimit' = Put(rateLimit, to, now)
             /\ \A priority \in ServicePriorities :
                  enqueue(State, id, priority, 0).ret = 0
             /\ State' = State
             /\ id \in AcceptedAfterShutdown'
      /\ \A id \in AcceptedAfterShutdown' :
           /\ stopCalls' >= 1
           /\ status'[id] = "Queued"
           /\ Count(invoked', id) = 0
           /\ id \notin DOMAIN runLog'
           /\ JobsOf(id)' = 0
    ]_vars

\* Job b was submitted after shutdown() and accepted; time has passed since
\* and its status is "Queued".
C38_Witness ==
  /\ stopCalls >= 1
  /\ "b" \in AcceptedAfterShutdown
  /\ status["b"] = "Queued"
  /\ \E to \in DOMAIN accepted : accepted[to][Len(accepted[to])] < now
  /\ \E to \in DOMAIN accepted : accepted[to][Len(accepted[to])] > 0


\* The calls of send on provider i, and of recordFailure on its breaker, that
\* the runs of job id have made so far.
Sends(id, i) == Count(tally, << "send", id, i >>)
FailuresRecorded(id, i) == Count(tally, << "recordFailure", id, i >>)

\* C39: for one submitted job, the send invocations on any single backend
\* are at most (maxRetries + 1) * maxAttempts (4 * 3 = 12 with the defaults)
\* and the recordFailure calls on any single breaker that the job causes are
\* at most maxRetries + 1.
C39_SendsBounded ==
  \A id \in Range(ServiceIds), i \in 1..NumProviders :
    /\ Sends(id, i) <= (config.maxRetries + 1) * backoffRetries
    /\ FailuresRecorded(id, i) <= config.maxRetries + 1
    /\ Sends(id, i) <= Invoked(id) * backoffRetries
    /\ FailuresRecorded(id, i) <= Invoked(id)

\* A job has made twelve sends on ProviderA and recorded four failures on
\* its breaker.
C39_Witness ==
  \E id \in Range(ServiceIds) :
    /\ Sends(id, 1) = 12
    /\ FailuresRecorded(id, 1) = 4


\* C40: for every recipient, any two submissions that returned Queued are at
\* least 60000 / ratePerMinute ms (12000 ms) apart, whatever submissions were
\* rejected as Duplicate or Rate limited in between; and a rejected
\* submission never extends the window: it starts at the recipient's latest
\* submission that returned Queued.
C40_QueuedApart ==
  /\ DOMAIN rateLimit = DOMAIN accepted
  /\ \A to \in DOMAIN accepted :
       LET times == accepted[to]
       IN /\ times # << >>
          /\ rateLimit[to] = times[Len(times)]
          /\ \A k \in 1..Len(times), l \in 1..Len(times) :
               k < l => times[l] - times[k] >= 60000 \div rateLimitPerMinute

\* Four submissions, of which two for the first recipient returned Queued,
\* at 0 and at 12000 ms, and two were rejected.
C40_Witness ==
  /\ enqueueCount = 4
  /\ accepted = (Recipients[1] :> << 0, 60000 \div rateLimitPerMinute >>)

====
